---- MODULE Spec2Model ----
(***************************************************************************)
(* The PhotoLayer component of the detail view (PhotoLayer.tsx): the       *)
(* canvas-update state machine that sits between the texture cache and the *)
(* photo canvas, with its loading state and its deferred-hide timer.       *)
(* TextureCache and PhotoCanvas are collaborators of PhotoLayer; they are  *)
(* modelled from their documented contract.                                *)
(* The last part is the PictureDetail component (picture-detail.js) with   *)
(* its 'keyup' listener on the document.                                   *)
(***************************************************************************)
EXTENDS Integers, Sequences, FiniteSets, TLC

\* ---------------------------------------------------------------- bounds
\* Number of photos of the list the detail view navigates through
NumPhotos == 3
\* Number of distinct CameraMetrics objects the parent may supply
NumMetrics == 2
\* Number of distinct bodySize objects the parent may supply
NumBodySizes == 2
\* Number of photos of the long list of the cache specification (SpecCache):
\* more than maxCacheSize, so that the cache has to evict
NumCachePhotos == 6
\* Number of PictureDetail instances the parent mounts one after the other
MaxMounts == 3
\* Number of callback invocations the record of PictureDetail's props keeps
MaxInvoked == 4

\* ------------------------------------------------------ program constants
maxCacheSize == 5

\* ------------------------------------------------------------ value sets
\* null (a missing path, texture, metrics object, timer handle)
Null == 0
\* a field missing from the `{}` passed as prevProps on mount
Undefined == -1
Keys == 1..NumPhotos
\* the image paths of the long list, and every path the cache may be asked for
CacheKeys == 1..NumCachePhotos
AllKeys == Keys \cup CacheKeys
Metrics == 1..NumMetrics
BodySizes == 1..NumBodySizes
Modes == {"view", "crop"}
\* the TextureError variants
TextureErrors == {"decode-failure", "not-found"}
\* why the decode of image k fails, when it fails
ErrorOf(k) == IF k % 2 = 1 THEN "decode-failure" ELSE "not-found"
\* getTextureError's null
NoError == "null"
\* PhotoLayerLoadingState, and the null prevLoadingState starts with
LoadingStates == {"loading", "done"} \cup TextureErrors
NullState == "null"

\* phase: the component's lifecycle; props: this.props;
\* obj: the instance fields of the component and the objects it owns or
\* registers with (PhotoLayer: canvas, cache, timers; PictureDetail: the
\* document's listeners)
VARIABLES phase, props, obj

vars == <<phase, props, obj>>

\* ------------------------------------------------------------- helpers
Range(seq) == {seq[i] : i \in 1..Len(seq)}

Call(op, arg) == [op |-> op, arg |-> arg]

\* The size of the texture decoded from image k
TextureSize(k) == [width |-> 10 * k, height |-> 10 * k + 1]

\* ----------------------------------------------------------- TextureCache
\* entries[k]: "absent", "pending", "ready" or the sticky TextureError;
\* order: the resident keys, least recently declared first;
\* fetches[k]: the number of fetches of k in flight whose result is awaited
NewTextureCache == [entries |-> [k \in AllKeys |-> "absent"], order |-> <<>>,
                    fetches |-> [k \in AllKeys |-> 0]]

getTexture(c, k) == IF k # Null /\ c.entries[k] = "ready" THEN k ELSE Null

getTextureError(c, k) == IF k # Null /\ c.entries[k] \in TextureErrors THEN c.entries[k] ELSE NoError

Resident(entries) == {k \in DOMAIN entries : entries[k] # "absent"}

RECURSIVE Evict_activeToo(_, _, _, _)
\* An eviction that does not spare the canvas's base texture
Evict_activeToo(entries, order, inSet, active) ==
    LET cand == SelectSeq(order, LAMBDA k : k \notin inSet /\ entries[k] # "pending")
    IN  IF Cardinality(Resident(entries)) <= maxCacheSize \/ cand = <<>>
        THEN [entries |-> entries, order |-> order]
        ELSE Evict_activeToo([entries EXCEPT ![cand[1]] = "absent"],
                             SelectSeq(order, LAMBDA k : k # cand[1]), inSet, active)

RECURSIVE Evict(_, _, _, _)
\* Evicts ready/failed entries outside the interest set, oldest first,
\* skipping the canvas's base texture, while more than maxCacheSize reside
Evict(entries, order, inSet, active) ==
    LET cand == SelectSeq(order, LAMBDA k : k \notin inSet /\ k # active
                                            /\ entries[k] # "pending")
    IN  IF Cardinality(Resident(entries)) <= maxCacheSize \/ cand = <<>>
        THEN [entries |-> entries, order |-> order]
        ELSE Evict([entries EXCEPT ![cand[1]] = "absent"],
                   SelectSeq(order, LAMBDA k : k # cand[1]), inSet, active)

RECURSIVE Touch(_, _)
\* Moves the declared keys to the recent end of the order; the primary
\* (first) key ends up most recent, the farthest key least recent
Touch(order, interest) ==
    IF interest = <<>> THEN order
    ELSE LET k == interest[Len(interest)]
             rest == SubSeq(interest, 1, Len(interest) - 1)
         IN  IF k \in Range(rest) THEN Touch(order, rest)
             ELSE Touch(Append(SelectSeq(order, LAMBDA x : x # k), k), rest)

\* A cache that fetches a declared key again when its last fetch failed
setImagesToFetch_retryFailed(c, imagePaths, active) ==
    LET interest == SelectSeq(imagePaths, LAMBDA k : k # Null)
        inSet == Range(interest)
        cancelled == {k \in DOMAIN c.entries : c.entries[k] = "pending" /\ k \notin inSet}
        kept == [k \in DOMAIN c.entries |->
                    IF k \in cancelled THEN "absent" ELSE c.entries[k]]
        toStart == {k \in inSet : kept[k] = "absent" \/ kept[k] \in TextureErrors}
        started == [k \in DOMAIN c.entries |->
                       IF k \in toStart THEN "pending" ELSE kept[k]]
        order1 == Touch(SelectSeq(c.order, LAMBDA k : k \notin cancelled), interest)
        ev == Evict(started, order1, inSet, active)
    IN  [entries |-> ev.entries, order |-> ev.order,
         fetches |-> [k \in DOMAIN c.entries |->
                         IF k \in cancelled THEN 0
                         ELSE IF k \in toStart THEN c.fetches[k] + 1
                         ELSE c.fetches[k]]]

\* A cache that starts a fetch for every declared key it has no result for,
\* the keys it is already fetching included
setImagesToFetch_refetch(c, imagePaths, active) ==
    LET interest == SelectSeq(imagePaths, LAMBDA k : k # Null)
        inSet == Range(interest)
        cancelled == {k \in DOMAIN c.entries : c.entries[k] = "pending" /\ k \notin inSet}
        kept == [k \in DOMAIN c.entries |->
                    IF k \in cancelled THEN "absent" ELSE c.entries[k]]
        toStart == {k \in inSet : kept[k] \in {"absent", "pending"}}
        started == [k \in DOMAIN c.entries |->
                       IF k \in toStart THEN "pending" ELSE kept[k]]
        order1 == Touch(SelectSeq(c.order, LAMBDA k : k \notin cancelled), interest)
        ev == Evict(started, order1, inSet, active)
    IN  [entries |-> ev.entries, order |-> ev.order,
         fetches |-> [k \in DOMAIN c.entries |->
                         IF k \in cancelled THEN 0
                         ELSE IF k \in toStart THEN c.fetches[k] + 1
                         ELSE c.fetches[k]]]

setImagesToFetch(c, imagePaths, active) ==
    LET interest == SelectSeq(imagePaths, LAMBDA k : k # Null)
        inSet == Range(interest)
        cancelled == {k \in DOMAIN c.entries : c.entries[k] = "pending" /\ k \notin inSet}
        kept == [k \in DOMAIN c.entries |->
                    IF k \in cancelled THEN "absent" ELSE c.entries[k]]
        toStart == {k \in inSet : kept[k] = "absent"}
        started == [k \in DOMAIN c.entries |->
                       IF k \in toStart THEN "pending" ELSE kept[k]]
        order1 == Touch(SelectSeq(c.order, LAMBDA k : k \notin cancelled), interest)
        ev == Evict(started, order1, inSet, active)
    IN  [entries |-> ev.entries, order |-> ev.order,
         fetches |-> [k \in DOMAIN c.entries |->
                         IF k \in cancelled THEN 0
                         ELSE IF k \in toStart THEN c.fetches[k] + 1
                         ELSE c.fetches[k]]]

\* ------------------------------------------------------------ PhotoCanvas
\* baseTexture: the texture bound; metrics: the CameraMetrics whose size and
\* matrices were set last; display, attached: the state of the element
NewPhotoCanvas == [baseTexture |-> Null, metrics |-> Null,
                   display |-> "", attached |-> FALSE]

\* The crop rectangle of the CameraMetrics object m
CropRect(m) == m

isValid(canvas) == canvas.baseTexture # Null /\ canvas.metrics # Null

\* ------------------------------------------------------------- PhotoLayer
\* The record `s` holds the instance fields of PhotoLayer, the objects it
\* owns, and the trace of the handler being run (the trace is what the run
\* of a handler returns beside the new fields; it is not kept between
\* handlers):
\*   thisCanvas, thisTextureCache: whether this.canvas / this.textureCache
\*     are set; canvas, textureCache: the objects themselves
\*   canvasImagePath, deferredHideCanvasTimeout, prevLoadingState
\*   timers: the handles of the timeouts that are scheduled
\*   calls: the calls the running handler made, in order
\*   last: what the running handler is and what it found
\*   lastNotified: the argument of the last onLoadingStateChange invocation
NoProps == [imagePath |-> Undefined, imagePathPrev |-> Undefined,
            imagePathNext |-> Undefined, cameraMetrics |-> Undefined,
            mode |-> "undefined", bodySize |-> Undefined]

NoLast == [kind |-> "init", ret |-> "", error |-> NoError,
           changed |-> FALSE, valid |-> FALSE]

InitObj == [thisCanvas |-> FALSE, thisTextureCache |-> FALSE,
            canvas |-> NewPhotoCanvas, textureCache |-> NewTextureCache,
            canvasImagePath |-> Null, deferredHideCanvasTimeout |-> Null,
            prevLoadingState |-> NullState, timers |-> {},
            calls |-> <<>>, last |-> NoLast,
            lastNotified |-> NullState]

\* The start of a handler: an empty trace
Begin(s, kind) == [s EXCEPT !.calls = <<>>, !.last = [NoLast EXCEPT !.kind = kind]]

\* The end of a handler: the fields it leaves, without the trace
Fields(s) == [s EXCEPT !.calls = <<>>, !.last = NoLast]

Log(s, op, arg) == [s EXCEPT !.calls = Append(@, Call(op, arg))]

onLoadingStateChange(s, loadingState) ==
    [Log(s, "onLoadingStateChange", loadingState)
        EXCEPT !.lastNotified = loadingState]

\* setLoadingState notifying without comparing with prevLoadingState
setLoadingState_noCheck(s, loadingState) ==
    onLoadingStateChange([s EXCEPT !.prevLoadingState = loadingState], loadingState)

setLoadingState(s, loadingState) ==
    IF loadingState # s.prevLoadingState
    THEN onLoadingStateChange([s EXCEPT !.prevLoadingState = loadingState], loadingState)
    ELSE s

setDisplay(s, d) == [Log(s, "display", d) EXCEPT !.canvas.display = d]

\* setTimeout: the handle of the new timer
NewTimer(ts) == CHOOSE t \in 1..(Cardinality(ts) + 1) : t \notin ts

\* The paths in the order previous, current, next
ImagesToFetch_prevFirst(p) == <<p.imagePathPrev, p.imagePath, p.imagePathNext>>

\* The paths updateCanvas declares to the cache
ImagesToFetch(p) == <<p.imagePath, p.imagePathNext, p.imagePathPrev>>

\* Declaring the interest set only by an update that binds another texture
declareInterest_onRebind(s, p) ==
    IF s.canvasImagePath = p.imagePath THEN s
    ELSE [Log(s, "setImagesToFetch", ImagesToFetch(p))
             EXCEPT !.textureCache = setImagesToFetch(@, ImagesToFetch(p), s.canvas.baseTexture)]

declareInterest(s, p) ==
    [Log(s, "setImagesToFetch", ImagesToFetch(p))
        EXCEPT !.textureCache = setImagesToFetch(@, ImagesToFetch(p), s.canvas.baseTexture)]

\* Asking for the error of any declared path, the first that has one
ErrorPath_anyDeclared(p) == IF p.imagePathPrev # Null THEN p.imagePathPrev ELSE p.imagePath

\* The path whose error updateCanvas asks the cache for
ErrorPath(p) == p.imagePath

\* showError forgetting to hide the canvas element
showError_noHide(s, textureError) ==
    [setLoadingState(s, textureError)
        EXCEPT !.last.ret = "error", !.last.error = textureError]

\* if (textureError) { hide; setLoadingState(textureError); return }
showError(s, textureError) ==
    [setLoadingState(setDisplay(s, "none"), textureError)
        EXCEPT !.last.ret = "error", !.last.error = textureError]

\* Binding the texture without notifying its size
bindTexture_noNotify(s, p) ==
    LET texture == getTexture(s.textureCache, p.imagePath)
        s1 == Log(s, "getTexture", p.imagePath)
    IN  [Log(s1, "setBaseTexture", texture)
            EXCEPT !.canvas.baseTexture = texture,
                   !.canvasImagePath = IF texture # Null THEN p.imagePath ELSE Null]

\* if (this.canvasImagePath !== props.imagePath) { ... }
bindTexture(s, p) ==
    LET texture == getTexture(s.textureCache, p.imagePath)
        s1 == Log(s, "getTexture", p.imagePath)
        s2 == [Log(s1, "setBaseTexture", texture)
                  EXCEPT !.canvas.baseTexture = texture,
                         !.canvasImagePath = IF texture # Null THEN p.imagePath ELSE Null]
    IN  IF texture # Null THEN Log(s2, "onTextureChange", TextureSize(texture)) ELSE s2

\* if (props.bodySize !== prevProps.bodySize) { ... }
resizeElement(s, p) == Log(s, "resize", p.bodySize)

\* canvas.setClipRect(...)
applyClipRect(s, p) ==
    LET rect == IF p.mode = "view" /\ p.cameraMetrics # Null
                THEN CropRect(p.cameraMetrics) ELSE Null
    IN  Log(s, "setClipRect", rect)

\* Pushing the size only, without the matrices
applyCameraMetrics_sizeOnly(s, p) == Log(s, "setSize", p.cameraMetrics)

\* canvas.setSize(...).setProjectionMatrix(...).setCameraMatrix(...)
applyCameraMetrics(s, p) ==
    [Log(Log(Log(s, "setSize", p.cameraMetrics), "setProjectionMatrix", p.cameraMetrics),
         "setCameraMatrix", p.cameraMetrics)
        EXCEPT !.canvas.metrics = p.cameraMetrics]

\* Forgetting the handle without clearing the timeout
cancelDeferredHide_handleOnly(s) ==
    [s EXCEPT !.deferredHideCanvasTimeout = Null]

\* clearTimeout(this.deferredHideCanvasTimeout)
cancelDeferredHide(s) ==
    IF s.deferredHideCanvasTimeout # Null
    THEN [Log(s, "clearTimeout", s.deferredHideCanvasTimeout)
             EXCEPT !.timers = @ \ {s.deferredHideCanvasTimeout},
                    !.deferredHideCanvasTimeout = Null]
    ELSE s

\* showFrame leaving a pending deferred hide running
showFrame_keepTimer(s) ==
    setLoadingState(setDisplay(Log(s, "update", Null), "block"), "done")

\* The valid branch: cancel the deferred hide, redraw, show, 'done'
showFrame(s) ==
    setLoadingState(setDisplay(Log(cancelDeferredHide(s), "update", Null), "block"), "done")

\* deferHide starting a timer whether or not one is running
deferHide_always(s) ==
    [Log(s, "setTimeout", NewTimer(s.timers))
        EXCEPT !.timers = @ \cup {NewTimer(s.timers)},
               !.deferredHideCanvasTimeout = NewTimer(s.timers)]

\* The invalid branch: start the deferred hide unless one is running
deferHide(s) ==
    IF s.deferredHideCanvasTimeout = Null
    THEN [Log(s, "setTimeout", NewTimer(s.timers))
             EXCEPT !.timers = @ \cup {NewTimer(s.timers)},
                    !.deferredHideCanvasTimeout = NewTimer(s.timers)]
    ELSE s

\* A callback that hides the canvas without notifying 'loading'
deferredHideFired_noNotify(s, t) ==
    setDisplay([s EXCEPT !.timers = @ \ {t}, !.deferredHideCanvasTimeout = Null], "none")

\* The body of the timeout's callback
deferredHideFired(s, t) ==
    setLoadingState(setDisplay([s EXCEPT !.timers = @ \ {t},
                                         !.deferredHideCanvasTimeout = Null], "none"),
                    "loading")

\* this.canvasImagePath !== props.imagePath
needsRebind(s, p) == s.canvasImagePath # p.imagePath

\* props.bodySize !== prevProps.bodySize
bodySizeChanged(p, pp) == p.bodySize # pp.bodySize

\* The clip condition taking a bodySize change for a change of the canvas
clipChanged_orBodySize(p, pp) ==
    p.mode # pp.mode \/ p.cameraMetrics # pp.cameraMetrics \/ p.bodySize # pp.bodySize

\* props.mode !== prevProps.mode || props.cameraMetrics !== prevProps.cameraMetrics
clipChanged(p, pp) == p.mode # pp.mode \/ p.cameraMetrics # pp.cameraMetrics

\* props.cameraMetrics !== prevProps.cameraMetrics
cameraChanged(p, pp) == p.cameraMetrics # pp.cameraMetrics

updateCanvas(s, p, pp) ==
    IF ~s.thisCanvas \/ ~s.thisTextureCache
    THEN [s EXCEPT !.last.ret = "nocanvas"]
    ELSE
    LET s1 == declareInterest(s, p)
        textureError == getTextureError(s1.textureCache, ErrorPath(p))
        s2 == Log(s1, "getTextureError", ErrorPath(p))
    IN  IF textureError # NoError
        THEN showError(s2, textureError)
        ELSE
        LET rebind == needsRebind(s2, p)
            s3 == IF rebind THEN bindTexture(s2, p) ELSE s2
            s4 == IF bodySizeChanged(p, pp) THEN resizeElement(s3, p) ELSE s3
            clip == clipChanged(p, pp)
            s5 == IF clip THEN applyClipRect(s4, p) ELSE s4
            cam == cameraChanged(p, pp)
            s6 == IF cam /\ p.cameraMetrics # Null THEN applyCameraMetrics(s5, p) ELSE s5
            canvasChanged == rebind \/ clip \/ cam
            valid == p.cameraMetrics # Null /\ isValid(s6.canvas)
            s7 == [s6 EXCEPT !.last.ret = "end", !.last.changed = canvasChanged,
                             !.last.valid = valid]
        IN  IF ~canvasChanged THEN s7
            ELSE IF valid THEN showFrame(s7)
            ELSE deferHide(s7)

\* onTextureFetched notifying the texture size without updating the canvas
onTextureFetched_noUpdate(s, p, imagePath, texture) ==
    IF imagePath = p.imagePath /\ texture # Null
    THEN Log(s, "onTextureChange", TextureSize(texture))
    ELSE s

onTextureFetched(s, p, imagePath, texture) ==
    LET s1 == IF imagePath = p.imagePath /\ texture # Null
              THEN Log(s, "onTextureChange", TextureSize(texture))
              ELSE s
    IN  updateCanvas(s1, p, p)

componentDidMount(s, p) ==
    updateCanvas([s EXCEPT !.thisCanvas = TRUE, !.thisTextureCache = TRUE,
                           !.canvas = [NewPhotoCanvas EXCEPT !.display = "none",
                                                             !.attached = TRUE],
                           !.textureCache = NewTextureCache],
                 p, NoProps)

componentWillUnmount(s) ==
    IF s.thisCanvas
    THEN [Log(s, "removeChild", Null) EXCEPT !.canvas.attached = FALSE, !.thisCanvas = FALSE]
    ELSE s

\* ------------------------------------------------------------ environment
\* The props the parent supplies for photo i of the list
PropsOf(i, m, mode, b) ==
    [imagePath |-> i,
     imagePathPrev |-> IF i > 1 THEN i - 1 ELSE Null,
     imagePathNext |-> IF i < NumPhotos THEN i + 1 ELSE Null,
     cameraMetrics |-> m, mode |-> mode, bodySize |-> b]

AllProps == {PropsOf(i, m, mode, b) : i \in Keys, m \in Metrics \cup {Null},
                                      mode \in Modes, b \in BodySizes}

\* The runs of the handlers from the current state
MountRun == componentDidMount(Begin(obj, "mount"), props)

UpdateRun(np) == updateCanvas(Begin(obj, "update"), np, props)

\* The cache stores the result of the fetch of k it awaits
fetchDone(c, k, result) ==
    [c EXCEPT !.entries[k] = result, !.fetches[k] = @ - 1]

\* The cache stores the result of the accepted fetch of k, then calls back
FetchRun(k, result) ==
    onTextureFetched(Begin([obj EXCEPT !.textureCache = fetchDone(@, k, result)], "fetched"),
                     props, k, IF result = "ready" THEN k ELSE Null)

TimerRun(t) == deferredHideFired(Begin(obj, "timer"), t)

UnmountRun == componentWillUnmount(Begin(obj, "unmount"))

FetchResults(k) == {"ready", ErrorOf(k)}

Init ==
    /\ phase = "constructed"
    /\ props \in AllProps
    /\ obj = InitObj

Mount ==
    /\ phase = "constructed"
    /\ phase' = "mounted"
    /\ obj' = Fields(MountRun)
    /\ UNCHANGED props

\* The parent re-renders with new props: componentDidUpdate(prevProps)
PropsChange ==
    /\ phase = "mounted"
    /\ \E np \in AllProps :
        /\ props' = np
        /\ obj' = Fields(UpdateRun(np))
    /\ UNCHANGED phase

\* The cache finishes the accepted fetch of k, with a texture or an error
FetchCompleted ==
    /\ \E k \in AllKeys : \E result \in FetchResults(k) :
        /\ obj.textureCache.entries[k] = "pending"
        /\ obj' = Fields(FetchRun(k, result))
    /\ UNCHANGED <<phase, props>>

TimerFired ==
    /\ \E t \in obj.timers :
        obj' = Fields(TimerRun(t))
    /\ UNCHANGED <<phase, props>>

Unmount ==
    /\ phase = "mounted"
    /\ phase' = "unmounted"
    /\ obj' = Fields(UnmountRun)
    /\ UNCHANGED props

Next ==
    \/ Mount
    \/ PropsChange
    \/ FetchCompleted
    \/ TimerFired
    \/ Unmount

Spec == Init /\ [][Next]_vars

\* ------------------------------------------- the long list (SpecCache)
\* The same component shown a list of NumCachePhotos photos, longer than the
\* cache is large; the parent keeps cameraMetrics, mode and bodySize as they
\* are and only navigates, to any photo of the list
CachePropsOf(i) ==
    [imagePath |-> i,
     imagePathPrev |-> IF i > 1 THEN i - 1 ELSE Null,
     imagePathNext |-> IF i < NumCachePhotos THEN i + 1 ELSE Null,
     cameraMetrics |-> 1, mode |-> "view", bodySize |-> 1]

CacheProps == {CachePropsOf(i) : i \in CacheKeys}

InitCache ==
    /\ phase = "constructed"
    /\ props \in CacheProps
    /\ obj = InitObj

\* The parent re-renders with another photo: componentDidUpdate(prevProps)
Navigate ==
    /\ phase = "mounted"
    /\ \E np \in CacheProps :
        /\ props' = np
        /\ obj' = Fields(UpdateRun(np))
    /\ UNCHANGED phase

NextCache ==
    \/ Mount
    \/ Navigate
    \/ FetchCompleted
    \/ TimerFired
    \/ Unmount

SpecCache == InitCache /\ [][NextCache]_vars

\* ------------------------------------------ PictureDetail (SpecDetail)
\* e.keyCode: escape, left, right, and a key the listener ignores
KeyCodes == {27, 37, 39, 65}

\* obj.instance: the PictureDetail instance the parent has constructed last;
\* obj.functions: the number of function objects bind() has created;
\* obj.listeners: the document's 'keyup' listeners in the order they were
\* added, each a bound function [fn, this];
\* obj.invoked: the props callbacks invoked so far, [this, callback]
InitDetailObj == [instance |-> 1, functions |-> 0, listeners |-> <<>>, invoked |-> <<>>]

\* this.keyboardListener.bind(this): a new function object at every call
bind(d, this) == [fn |-> d.functions + 1, this |-> this]

\* document.addEventListener('keyup', listener): adds the listener unless
\* this very function object is registered already
addEventListener(d, listener) ==
    [d EXCEPT !.functions = listener.fn,
              !.listeners = IF listener \in Range(@) THEN @ ELSE Append(@, listener)]

\* document.removeEventListener('keyup', listener): removes the listener
\* that is this very function object, if it is registered
removeEventListener(d, listener) ==
    [d EXCEPT !.functions = listener.fn,
              !.listeners = SelectSeq(@, LAMBDA l : l # listener)]

\* keyboardListener(e), called with the `this` it was bound to
keyboardListener(d, this, keyCode) ==
    IF keyCode = 27 THEN [d EXCEPT !.invoked = Append(@, [this |-> this, callback |-> "setCurrent"])]
    ELSE IF keyCode = 37 THEN [d EXCEPT !.invoked = Append(@, [this |-> this, callback |-> "setLeft"])]
    ELSE IF keyCode = 39 THEN [d EXCEPT !.invoked = Append(@, [this |-> this, callback |-> "setRight"])]
    ELSE d

PictureDetail_componentDidMount(d) == addEventListener(d, bind(d, d.instance))

PictureDetail_componentWillUnmount(d) == removeEventListener(d, bind(d, d.instance))

RECURSIVE dispatch(_, _, _)
\* The document calls the listeners registered for 'keyup', in order
dispatch(d, listeners, keyCode) ==
    IF listeners = <<>> THEN d
    ELSE dispatch(keyboardListener(d, listeners[1].this, keyCode), Tail(listeners), keyCode)

KeyUpRun(keyCode) == dispatch(obj, obj.listeners, keyCode)

DetailProps == {[photo |-> i] : i \in Keys}

InitDetail ==
    /\ phase = "constructed"
    /\ props \in DetailProps
    /\ obj = InitDetailObj

DetailMount ==
    /\ phase = "constructed"
    /\ phase' = "mounted"
    /\ obj' = PictureDetail_componentDidMount(obj)
    /\ UNCHANGED props

DetailUnmount ==
    /\ phase = "mounted"
    /\ phase' = "unmounted"
    /\ obj' = PictureDetail_componentWillUnmount(obj)
    /\ UNCHANGED props

\* The parent shows the detail view again: a new PictureDetail instance
DetailConstruct ==
    /\ phase = "unmounted"
    /\ obj.instance < MaxMounts
    /\ phase' = "constructed"
    /\ \E np \in DetailProps : props' = np
    /\ obj' = [obj EXCEPT !.instance = @ + 1]

\* The user releases a key
KeyUp ==
    /\ \E keyCode \in KeyCodes :
        /\ Len(KeyUpRun(keyCode).invoked) <= MaxInvoked
        /\ obj' = KeyUpRun(keyCode)
    /\ UNCHANGED <<phase, props>>

NextDetail ==
    \/ DetailMount
    \/ DetailUnmount
    \/ DetailConstruct
    \/ KeyUp

SpecDetail == InitDetail /\ [][NextDetail]_vars

\* ------------------------------------------------------- reading a trace
Called(r, op) == \E i \in DOMAIN r.calls : r.calls[i].op = op

CalledWith(r, op, arg) == \E i \in DOMAIN r.calls : r.calls[i].op = op /\ r.calls[i].arg = arg

\* Whether call op comes before call op2 wherever both occur
Before(r, op, op2) ==
    \A i, j \in DOMAIN r.calls : (r.calls[i].op = op /\ r.calls[j].op = op2) => i < j

CanvasOps == {"setBaseTexture", "setClipRect", "setSize", "setProjectionMatrix",
              "setCameraMatrix", "update"}

PendingKeys == {k \in AllKeys : obj.textureCache.entries[k] = "pending"}

\* The state a fetch completion hands to onTextureFetched
Fetched(k, result) == [obj EXCEPT !.textureCache = fetchDone(@, k, result)]

\* P(pre, p, pp, r) of every run of updateCanvas that can start in the current
\* state: on mount, on a props change and on a fetch completion; pre: the
\* fields at the start, p: the props, pp: prevProps, r: the run
ForAllUpdates(P(_, _, _, _)) ==
    /\ phase = "constructed" => P(obj, props, NoProps, MountRun)
    /\ phase = "mounted" => \A np \in AllProps : P(obj, np, props, UpdateRun(np))
    /\ \A k \in PendingKeys : \A result \in FetchResults(k) :
          P(Fetched(k, result), props, props, FetchRun(k, result))

\* The same of the long list, where the parent only navigates
ForAllCacheUpdates(P(_, _, _, _)) ==
    /\ phase = "constructed" => P(obj, props, NoProps, MountRun)
    /\ phase = "mounted" => \A np \in CacheProps : P(obj, np, props, UpdateRun(np))
    /\ \A k \in PendingKeys : \A result \in FetchResults(k) :
          P(Fetched(k, result), props, props, FetchRun(k, result))

\* The keys whose fetch has completed: a texture or a sticky error is cached
Completed(c) == {k \in DOMAIN c.entries : c.entries[k] \in {"ready"} \cup TextureErrors}

\* The canvas is considered changed by a run that gets past the error check
ConsideredChanged(pre, p, pp) ==
    \/ pre.canvasImagePath # p.imagePath
    \/ p.mode # pp.mode
    \/ p.cameraMetrics # pp.cameraMetrics

\* ---------------------------------------------------------------- claims
C1_Case(pre, p, pp, r) ==
    LET e == getTextureError(pre.textureCache, p.imagePath)
    IN  (r.last.ret # "nocanvas" /\ e # NoError) =>
            /\ CalledWith(r, "display", "none")
            /\ r.canvas.display = "none"
            /\ r.prevLoadingState = e
            /\ r.lastNotified = e
            /\ \A op \in CanvasOps \cup {"getTexture", "resize", "setTimeout", "clearTimeout"} :
                  ~Called(r, op)
            /\ ~CalledWith(r, "display", "block")
            /\ r.canvas.baseTexture = pre.canvas.baseTexture
            /\ r.canvas.metrics = pre.canvas.metrics
            /\ r.canvasImagePath = pre.canvasImagePath

\* C1: every update that finds a texture error for the current imagePath
\* hides the canvas element, makes exactly that error the loading state and
\* returns: it binds no texture, sets no clip rect or transform, neither
\* redraws nor shows the canvas, whatever cameraMetrics, mode and bodySize are
C1_ErrorWins == ForAllUpdates(C1_Case)

\* C1 witness: an error is the loading state of the current image and the
\* canvas is hidden although the props carry cameraMetrics the canvas has
C1_Witness ==
    /\ phase = "mounted"
    /\ obj.prevLoadingState \in TextureErrors
    /\ obj.prevLoadingState = getTextureError(obj.textureCache, props.imagePath)
    /\ props.cameraMetrics # Null
    /\ obj.canvas.metrics = props.cameraMetrics
    /\ obj.canvas.baseTexture # Null
    /\ obj.canvas.display = "none"

C2_Case(pre, p, pp, r) ==
    (/\ r.last.ret # "nocanvas"
     /\ getTextureError(pre.textureCache, p.imagePath) = NoError
     /\ ConsideredChanged(pre, p, pp)
     /\ p.cameraMetrics # Null
     /\ isValid(r.canvas)) =>
        /\ r.deferredHideCanvasTimeout = Null
        /\ r.timers = {}
        /\ pre.deferredHideCanvasTimeout # Null
              => CalledWith(r, "clearTimeout", pre.deferredHideCanvasTimeout)
        /\ Called(r, "update")
        /\ CalledWith(r, "display", "block")
        /\ Before(r, "update", "display")
        /\ r.canvas.display = "block"
        /\ r.prevLoadingState = "done"
        /\ r.lastNotified = "done"

\* C2: an update that considers the canvas changed, has cameraMetrics and
\* finds the canvas valid cancels the pending deferred-hide timer, redraws,
\* shows the canvas element and makes 'done' the loading state
C2_ValidFrameShown == ForAllUpdates(C2_Case)

\* C2 witness: a deferred hide is pending while the canvas is hidden, and an
\* update with new props renders a valid frame, which cancels the timer
C2_Witness ==
    /\ phase = "mounted"
    /\ obj.deferredHideCanvasTimeout # Null
    /\ obj.canvas.display = "none"
    /\ \E np \in AllProps :
          LET r == UpdateRun(np)
          IN  /\ r.last.changed /\ r.last.valid
              /\ r.timers = {} /\ r.canvas.display = "block" /\ r.lastNotified = "done"

C3_Case(pre, p, pp, r) ==
    (/\ r.last.ret # "nocanvas"
     /\ getTextureError(pre.textureCache, p.imagePath) = NoError
     /\ ConsideredChanged(pre, p, pp)
     /\ ~(p.cameraMetrics # Null /\ isValid(r.canvas))) =>
        /\ ~Called(r, "display")
        /\ ~Called(r, "onLoadingStateChange")
        /\ ~Called(r, "clearTimeout")
        /\ r.canvas.display = (IF pre.thisCanvas THEN pre.canvas.display ELSE "none")
        /\ r.prevLoadingState = pre.prevLoadingState
        /\ IF pre.deferredHideCanvasTimeout = Null
           THEN /\ Cardinality(r.timers) = Cardinality(pre.timers) + 1
                /\ r.deferredHideCanvasTimeout \in r.timers \ pre.timers
                /\ Cardinality({i \in DOMAIN r.calls : r.calls[i].op = "setTimeout"}) = 1
           ELSE /\ r.timers = pre.timers
                /\ r.deferredHideCanvasTimeout = pre.deferredHideCanvasTimeout
                /\ ~Called(r, "setTimeout")

\* C3: an update that considers the canvas changed while it is not valid (or
\* cameraMetrics is absent) does not hide the canvas; it starts exactly one
\* timer if none is running and none otherwise; the timer, when it fires,
\* hides the canvas element and makes 'loading' the loading state; at most
\* one deferred-hide timer is pending in every reachable state
C3_DeferredHide ==
    /\ ForAllUpdates(C3_Case)
    /\ Cardinality(obj.timers) <= 1
    /\ obj.timers = IF obj.deferredHideCanvasTimeout = Null
                    THEN {} ELSE {obj.deferredHideCanvasTimeout}
    /\ \A t \in obj.timers :
          LET r == TimerRun(t)
          IN  /\ r.timers = {} /\ r.deferredHideCanvasTimeout = Null
              /\ r.canvas.display = "none"
              /\ r.prevLoadingState = "loading" /\ r.lastNotified = "loading"

\* C3 witness: a frame was shown ('done'), a later update left the canvas
\* without a texture, and the canvas is still visible while the one timer runs;
\* a further invalid update can run without starting another timer
C3_Witness ==
    /\ phase = "mounted"
    /\ obj.timers # {}
    /\ obj.canvas.display = "block"
    /\ obj.prevLoadingState = "done"
    /\ obj.canvasImagePath = Null
    /\ \E np \in AllProps :
          LET r == UpdateRun(np)
          IN  r.last.changed /\ ~r.last.valid /\ r.timers = obj.timers

\* The arguments of the onLoadingStateChange calls of a trace
RECURSIVE Notified(_)
Notified(calls) ==
    IF calls = <<>> THEN <<>>
    ELSE IF calls[1].op = "onLoadingStateChange"
         THEN <<calls[1].arg>> \o Notified(Tail(calls))
         ELSE Notified(Tail(calls))

NoRepeat(seq) == \A i \in 1..(Len(seq) - 1) : seq[i] # seq[i + 1]

C4_Case(pre, p, pp, r) == NoRepeat(<<pre.lastNotified>> \o Notified(r.calls))

\* C4: onLoadingStateChange is never invoked with the state of the invocation
\* before it, whatever handler (update, fetch completion, timer) invokes it
C4_NotificationsDeduplicated ==
    /\ ForAllUpdates(C4_Case)
    /\ \A t \in obj.timers : C4_Case(obj, props, props, TimerRun(t))

\* C4 witness: 'done' was notified last and an update renders a valid frame
\* again, which sets 'done' again and notifies nobody
C4_Witness ==
    /\ phase = "mounted"
    /\ obj.lastNotified = "done"
    /\ \E np \in AllProps :
          LET r == UpdateRun(np)
          IN  r.last.changed /\ r.last.valid /\ ~Called(r, "onLoadingStateChange")

\* C5: a fetch completion for the current imagePath with a texture first
\* notifies onTextureChange with the texture's size and then runs the update
\* with the current props: the canvas, unbound while the texture was pending,
\* is bound to the current image's texture, and with cameraMetrics present
\* and the canvas valid it is redrawn, shown and 'done' without a props change
C5_FetchCompletionRebinds ==
    (phase = "mounted" /\ props.imagePath \in PendingKeys) =>
        LET k == props.imagePath
            r == FetchRun(k, "ready")
        IN  /\ obj.canvasImagePath = Null
            /\ obj.canvas.baseTexture = Null
            /\ Len(r.calls) >= 2
            /\ r.calls[1] = Call("onTextureChange", TextureSize(k))
            /\ r.calls[2].op = "setImagesToFetch"
            /\ r.canvasImagePath = k
            /\ r.canvas.baseTexture = k
            /\ CalledWith(r, "setBaseTexture", k)
            /\ (props.cameraMetrics # Null /\ isValid(r.canvas)) =>
                  /\ Called(r, "update")
                  /\ r.canvas.display = "block"
                  /\ r.prevLoadingState = "done"
                  /\ r.lastNotified = "done"

\* C5 witness: the current image's fetch is pending, the canvas is hidden and
\* 'loading', and the completion alone shows the frame and notifies 'done'
C5_Witness ==
    /\ phase = "mounted"
    /\ props.imagePath \in PendingKeys
    /\ obj.prevLoadingState = "loading"
    /\ obj.canvas.display = "none"
    /\ LET r == FetchRun(props.imagePath, "ready")
       IN  r.canvas.display = "block" /\ CalledWith(r, "onLoadingStateChange", "done")

\* C6 (as claimed): once componentWillUnmount has run, the deferred-hide timer
\* never fires, no canvas element is hidden and onLoadingStateChange is not
\* invoked any more
C6_NothingAfterTeardown ==
    [][phase = "unmounted" =>
          /\ obj'.timers = obj.timers
          /\ obj'.canvas = obj.canvas
          /\ obj'.lastNotified = obj.lastNotified]_vars

\* The scenario of C7: no cameraMetrics yet, the current image's texture Ready
C7_Scenario ==
    /\ phase = "mounted"
    /\ props.cameraMetrics = Null
    /\ getTexture(obj.textureCache, props.imagePath) # Null

\* C7 (as claimed): in the scenario no deferred-hide timer has been started
\* before the canvas becomes valid, so none can fire
C7_NoTimerBeforeValid == C7_Scenario => obj.timers = {}

\* C7 (amended): when cameraMetrics goes from null to a value while the
\* current image's texture is Ready, that update leaves the texture bound,
\* pushes size, projection and camera matrix, redraws, shows the canvas and
\* makes 'done' the loading state, without notifying 'loading' or starting a
\* timer; a timer started earlier and still pending is cancelled by it
C7_MetricsArrive ==
    C7_Scenario =>
        \A np \in AllProps :
            (np.imagePath = props.imagePath /\ np.cameraMetrics # Null) =>
                LET r == UpdateRun(np)
                IN  /\ r.canvas.baseTexture = np.imagePath
                    /\ r.canvasImagePath = np.imagePath
                    /\ \A op \in {"setSize", "setProjectionMatrix", "setCameraMatrix"} :
                          CalledWith(r, op, np.cameraMetrics)
                    /\ r.canvas.metrics = np.cameraMetrics
                    /\ Called(r, "update")
                    /\ Before(r, "setCameraMatrix", "update")
                    /\ r.canvas.display = "block"
                    /\ r.prevLoadingState = "done"
                    /\ r.lastNotified = "done"
                    /\ ~Called(r, "setTimeout")
                    /\ ~CalledWith(r, "onLoadingStateChange", "loading")
                    /\ r.timers = {}
                    /\ r.deferredHideCanvasTimeout = Null

\* C7 witness: the scenario with the timer of the mount still pending and
\* nothing notified yet; the arrival of cameraMetrics notifies 'done' first
C7_Witness ==
    /\ C7_Scenario
    /\ obj.timers # {}
    /\ obj.lastNotified = NullState
    /\ \E np \in AllProps :
          /\ np.imagePath = props.imagePath /\ np.cameraMetrics # Null
          /\ LET r == UpdateRun(np)
             IN  CalledWith(r, "onLoadingStateChange", "done") /\ Called(r, "clearTimeout")

\* The props that differ from the current ones in bodySize only
OnlyBodySize(np) == np.bodySize # props.bodySize /\ np = [props EXCEPT !.bodySize = np.bodySize]

C8_OnlyResized(r, np) ==
    /\ CalledWith(r, "resize", np.bodySize)
    /\ \A op \in CanvasOps \cup {"display", "setTimeout", "clearTimeout",
                                "onLoadingStateChange"} : ~Called(r, op)
    /\ ~r.last.changed
    /\ r.canvas = obj.canvas
    /\ r.timers = obj.timers
    /\ r.prevLoadingState = obj.prevLoadingState

\* C8 (as claimed): an update in which only bodySize differs resizes the
\* canvas element and does nothing else
C8_BodySizeOnlyResizes ==
    phase = "mounted" => \A np \in AllProps : OnlyBodySize(np) => C8_OnlyResized(UpdateRun(np), np)

\* C8 (amended): an update in which only bodySize differs resizes the canvas
\* element and does nothing else when the current image has no texture error
\* and its texture is the one bound; with a texture error it hides the element
\* again without resizing it; with the texture not bound yet it also retries
\* the bind with no texture, counts as changed and starts the deferred hide
\* unless one is running
C8_BodySizeChange ==
    phase = "mounted" =>
        \A np \in AllProps : OnlyBodySize(np) =>
            LET r == UpdateRun(np)
            IN  IF getTextureError(obj.textureCache, np.imagePath) # NoError
                THEN /\ ~Called(r, "resize")
                     /\ CalledWith(r, "display", "none")
                     /\ \A op \in CanvasOps : ~Called(r, op)
                ELSE IF obj.canvasImagePath = np.imagePath
                THEN C8_OnlyResized(r, np)
                ELSE /\ CalledWith(r, "resize", np.bodySize)
                     /\ CalledWith(r, "setBaseTexture", Null)
                     /\ r.last.changed /\ ~r.last.valid
                     /\ \A op \in {"setClipRect", "setSize", "setProjectionMatrix",
                                   "setCameraMatrix", "update", "display",
                                   "onLoadingStateChange"} : ~Called(r, op)
                     /\ Called(r, "setTimeout") <=> obj.deferredHideCanvasTimeout = Null

\* C8 witness: a frame is shown and a bodySize can change alone
C8_Witness ==
    /\ phase = "mounted"
    /\ obj.canvasImagePath = props.imagePath
    /\ obj.canvas.display = "block"
    /\ \E np \in AllProps : OnlyBodySize(np) /\ UpdateRun(np).calls[3] = Call("resize", np.bodySize)

\* C8 witness of the unbound case: the texture is pending, the timer has
\* fired, and a bodySize change alone starts the next timer
C8_WitnessUnbound ==
    /\ phase = "mounted"
    /\ obj.canvasImagePath = Null
    /\ obj.timers = {}
    /\ \E np \in AllProps : OnlyBodySize(np) /\ Called(UpdateRun(np), "setTimeout")

C9_ErrorIsCurrent(pre, p, pp, r) ==
    \A e \in TextureErrors :
        CalledWith(r, "onLoadingStateChange", e) => e = getTextureError(r.textureCache, p.imagePath)

\* C9: the loading state becomes a TextureError only when that is the cache's
\* error for the current imagePath; the failed fetch of a neighbour, with the
\* update its completion runs, makes no error the loading state, does not
\* hide the canvas (a timer it starts finds the canvas hidden already) and
\* leaves the current image able to reach 'done' when its own fetch completes
C9_NeighbourFailuresSwallowed ==
    /\ ForAllUpdates(C9_ErrorIsCurrent)
    /\ obj.prevLoadingState \in TextureErrors => obj.lastNotified = obj.prevLoadingState
    /\ (phase = "mounted" /\ getTextureError(obj.textureCache, props.imagePath) = NoError) =>
          \A k \in PendingKeys \ {props.imagePath} :
              LET r == FetchRun(k, ErrorOf(k))
              IN  /\ getTextureError(r.textureCache, k) = ErrorOf(k)
                  /\ r.prevLoadingState = obj.prevLoadingState
                  /\ r.lastNotified = obj.lastNotified
                  /\ ~Called(r, "onLoadingStateChange")
                  /\ ~Called(r, "display")
                  /\ r.canvas = obj.canvas
                  /\ r.canvasImagePath = obj.canvasImagePath
                  /\ Called(r, "setTimeout") => obj.canvas.display = "none"
                  /\ r.textureCache.entries[props.imagePath] = obj.textureCache.entries[props.imagePath]
    /\ (/\ phase = "mounted"
        /\ props.imagePath \in PendingKeys
        /\ \E k \in Keys \ {props.imagePath} : getTextureError(obj.textureCache, k) # NoError
        /\ props.cameraMetrics # Null
        /\ obj.canvas.metrics # Null) =>
          FetchRun(props.imagePath, "ready").lastNotified = "done"

\* C9 witness: a neighbour has failed, the current image is shown and 'done'
C9_Witness ==
    /\ phase = "mounted"
    /\ \E k \in {props.imagePathPrev, props.imagePathNext} \ {Null} :
          getTextureError(obj.textureCache, k) # NoError
    /\ obj.canvasImagePath = props.imagePath
    /\ obj.canvas.display = "block"
    /\ obj.lastNotified = "done"

\* C9 witness of the completion: a frame is shown while a neighbour's fetch is
\* pending and can fail
C9_WitnessPending ==
    /\ phase = "mounted"
    /\ obj.canvas.display = "block"
    /\ obj.lastNotified = "done"
    /\ PendingKeys \ {props.imagePath} # {}

SelectNonNull(seq) == SelectSeq(seq, LAMBDA k : k # Null)

\* The position of the first call of a trace that is an update's own
FirstUpdateCall(r) ==
    IF r.last.kind = "fetched" /\ Len(r.calls) > 0 /\ r.calls[1].op = "onTextureChange"
    THEN 2 ELSE 1

C10_First(pre, p, pp, r) ==
    r.last.ret # "nocanvas" =>
        /\ Len(r.calls) >= FirstUpdateCall(r)
        /\ r.calls[FirstUpdateCall(r)].op = "setImagesToFetch"
        /\ \A op \in CanvasOps \cup {"getTextureError", "getTexture", "display", "resize"} :
              Before(r, "setImagesToFetch", op)

C10_AsClaimed(pre, p, pp, r) ==
    r.last.ret # "nocanvas" =>
        /\ C10_First(pre, p, pp, r)
        /\ r.calls[FirstUpdateCall(r)].arg
              = SelectNonNull(<<p.imagePathPrev, p.imagePath, p.imagePathNext>>)

C10_AsCoded(pre, p, pp, r) ==
    r.last.ret # "nocanvas" =>
        /\ C10_First(pre, p, pp, r)
        /\ r.calls[FirstUpdateCall(r)].arg = <<p.imagePath, p.imagePathNext, p.imagePathPrev>>
        /\ Cardinality({i \in DOMAIN r.calls : r.calls[i].op = "setImagesToFetch"}) = 1

\* C10 (as claimed): every update first declares to the cache the interest
\* [imagePathPrev, imagePath, imagePathNext] with the null entries filtered out
C10_InterestPrevCurrentNext == ForAllUpdates(C10_AsClaimed)

\* C10 (amended): every update first declares to the cache, once and before
\* any error query, texture query or canvas mutation, the interest
\* [imagePath, imagePathNext, imagePathPrev], a missing neighbour passed as null
C10_InterestCurrentNextPrev == ForAllUpdates(C10_AsCoded)

\* C10 witness: the first photo is shown, it has no previous photo, and an
\* update declares its interest with the null in the third place
C10_Witness ==
    /\ phase = "mounted"
    /\ props.imagePathPrev = Null
    /\ props.imagePathNext # Null
    /\ obj.canvas.display = "block"
    /\ UpdateRun(props).calls[1]
          = Call("setImagesToFetch", <<props.imagePath, props.imagePathNext, Null>>)

\* ------------------------------------------------------------------ C11
\* C11 (SpecCache): whatever the parent navigates to and however the fetches
\* complete, the cache never holds more than maxCacheSize entries, the
\* texture bound to the canvas is a texture the cache still owns, and no
\* update evicts the texture that is bound when it starts or the completed
\* entry of the image it makes current.
C11_Kept(pre, p, pp, r) ==
    /\ (pre.thisCanvas /\ pre.canvas.baseTexture # Null) =>
           r.textureCache.entries[pre.canvas.baseTexture] = "ready"
    /\ (pre.thisCanvas /\ p.imagePath \in Completed(pre.textureCache)) =>
           r.textureCache.entries[p.imagePath] = pre.textureCache.entries[p.imagePath]

C11_CacheBounded ==
    /\ Cardinality(Resident(obj.textureCache.entries)) <= maxCacheSize
    /\ obj.canvas.baseTexture # Null =>
           obj.textureCache.entries[obj.canvas.baseTexture] = "ready"
    /\ ForAllCacheUpdates(C11_Kept)

\* The cache is full, the bound texture is the oldest entry and is outside
\* the interest set the parent declares next, and that update evicts an entry
C11_Witness ==
    /\ phase = "mounted"
    /\ Cardinality(Resident(obj.textureCache.entries)) = maxCacheSize
    /\ obj.canvas.baseTexture # Null
    /\ obj.textureCache.order # <<>>
    /\ obj.textureCache.order[1] = obj.canvas.baseTexture
    /\ \E np \in CacheProps :
          /\ obj.canvas.baseTexture \notin Range(ImagesToFetch(np))
          /\ \E k \in Completed(obj.textureCache) :
                UpdateRun(np).textureCache.entries[k] = "absent"

\* ------------------------------------------------------------------ C12
\* C12 (SpecCache): a fetch whose key has left the interest set is stale. The
\* cache awaits a result (and so calls onTextureFetched and stores a texture
\* or an error) only for keys of the interest set declared last, and every
\* update that declares a set without a pending key leaves that key with no
\* entry and no awaited fetch, whatever the decode later ends with.
C12_Cancelled(pre, p, pp, r) ==
    pre.thisCanvas =>
        \A k \in AllKeys :
            (pre.textureCache.entries[k] = "pending" /\ k \notin Range(ImagesToFetch(p))) =>
                /\ r.textureCache.entries[k] = "absent"
                /\ r.textureCache.fetches[k] = 0

C13_Sticky(pre, p, pp, r) ==
    \A k \in AllKeys :
        LET error == getTextureError(pre.textureCache, k)
            evicted == r.textureCache.entries[k] = "absent"
        IN  error # NoError =>
              /\ r.textureCache.fetches[k] = 0
              /\ r.textureCache.entries[k] # "pending"
              /\ ~evicted => /\ getTextureError(r.textureCache, k) = error
                             /\ getTexture(r.textureCache, k) = Null
              /\ evicted => k \notin Range(ImagesToFetch(p))

C13_ErrorsAreSticky == ForAllCacheUpdates(C13_Sticky)

\* A failed key that the parent can declare again (it stays failed), and a
\* failed key that the parent's next update evicts
C13_Witness ==
    /\ phase = "mounted"
    /\ \E k \in AllKeys : \E np \in CacheProps :
          /\ getTextureError(obj.textureCache, k) # NoError
          /\ k \in Range(ImagesToFetch(np))
          /\ k # props.imagePath
    /\ \E k \in AllKeys : \E np \in CacheProps :
          /\ getTextureError(obj.textureCache, k) # NoError
          /\ UpdateRun(np).textureCache.entries[k] = "absent"

\* ------------------------------------------------------------------ C14
\* C14 (SpecCache): declaring the same interest set again changes nothing:
\* a second setImagesToFetch with the set an update has just declared, right
\* after the first or after the update has run, starts no fetch and evicts
\* nothing, and so does an update with the props the component already has.
\* At most one fetch per key is in flight: one for a pending key, none else.
C14_SecondCall(pre, p, pp, r) ==
    pre.thisCanvas =>
        LET first == setImagesToFetch(pre.textureCache, ImagesToFetch(p), pre.canvas.baseTexture)
        IN  /\ setImagesToFetch(first, ImagesToFetch(p), pre.canvas.baseTexture) = first
            /\ setImagesToFetch(r.textureCache, ImagesToFetch(p), r.canvas.baseTexture)
                   = r.textureCache

C14_InterestIdempotent ==
    /\ \A k \in AllKeys :
          obj.textureCache.fetches[k] =
              IF obj.textureCache.entries[k] = "pending" THEN 1 ELSE 0
    /\ ForAllCacheUpdates(C14_SecondCall)
    /\ phase = "mounted" => UpdateRun(props).textureCache = obj.textureCache

\* The cache is full, two fetches are pending, and an update declares the
\* set of the current props again
C14_Witness ==
    /\ phase = "mounted"
    /\ Cardinality(Resident(obj.textureCache.entries)) = maxCacheSize
    /\ Cardinality(PendingKeys) >= 2
    /\ CalledWith(UpdateRun(props), "setImagesToFetch", ImagesToFetch(props))

\* ------------------------------------------------------------------ C15
\* C15 (Spec): a deferred hide that is pending when a valid frame is rendered
\* is cancelled and never fires. An update that renders a frame leaves no
\* timer scheduled; an update starts a timer only when it found the canvas
\* changed and not valid (or cameraMetrics absent), and itself neither hides
\* the canvas for 'loading' nor notifies 'loading'. So whenever a timer is
\* pending while 'done' is the last notified state, it was started after
\* that frame: the canvas is not valid for the current props.
C15_Update(pre, p, pp, r) ==
    /\ (Called(r, "update") \/ CalledWith(r, "onLoadingStateChange", "done")) =>
          /\ r.timers = {}
          /\ r.deferredHideCanvasTimeout = Null
          /\ \A t \in pre.timers : CalledWith(r, "clearTimeout", t)
    /\ r.timers \ pre.timers # {} =>
          /\ ConsideredChanged(pre, p, pp)
          /\ ~(p.cameraMetrics # Null /\ isValid(r.canvas))
          /\ Called(r, "setTimeout")
    /\ ~CalledWith(r, "onLoadingStateChange", "loading")

C15_CancelledTimerNeverFires ==
    /\ ForAllUpdates(C15_Update)
    /\ Cardinality(obj.timers) <= 1
    /\ obj.timers # {} => obj.deferredHideCanvasTimeout \in obj.timers
    /\ (obj.lastNotified = "done" /\ obj.timers # {}) =>
          \/ props.cameraMetrics = Null
          \/ ~isValid(obj.canvas)

\* A timer is pending and an update of the current state renders a valid
\* frame, after 'done' had been notified and a later update started the timer
C15_Witness ==
    /\ phase = "mounted"
    /\ obj.lastNotified = "done"
    /\ obj.timers # {}
    /\ \E np \in AllProps :
          /\ CalledWith(UpdateRun(np), "clearTimeout", obj.deferredHideCanvasTimeout)
          /\ Called(UpdateRun(np), "update")

\* ------------------------------------------------------------------ C16
\* C16 (Spec): an error state is not overridden by a deferred hide in
\* progress. While the component is mounted, the error of the current image
\* is the last notified loading state, and a step changes neither imagePath
\* nor that error, the last notified loading state stays that error.
C16_ErrorState ==
    /\ phase = "mounted"
    /\ getTextureError(obj.textureCache, props.imagePath) # NoError
    /\ obj.lastNotified = getTextureError(obj.textureCache, props.imagePath)

C16_ErrorNotOverridden ==
    [][(/\ C16_ErrorState
        /\ props'.imagePath = props.imagePath
        /\ getTextureError(obj'.textureCache, props.imagePath)
              = getTextureError(obj.textureCache, props.imagePath))
       => obj'.lastNotified = obj.lastNotified]_vars

\* ------------------------------------------------------------------ C17
\* C17 (Spec): recovery from an error. After any update that completes while
\* the current image has no texture error, its texture is ready,
\* cameraMetrics is present and the canvas is valid, the canvas element is
\* visible and 'done' is the last notified loading state: between handlers,
\* a mounted component whose current image is displayable displays it.
C17_Displayable(s, p) ==
    /\ s.thisCanvas
    /\ getTextureError(s.textureCache, p.imagePath) = NoError
    /\ getTexture(s.textureCache, p.imagePath) # Null
    /\ p.cameraMetrics # Null
    /\ isValid(s.canvas)

C17_RecoversFromError ==
    (phase = "mounted" /\ C17_Displayable(obj, props)) =>
        obj.canvas.display = "block" /\ obj.lastNotified = "done"

\* ------------------------------------------------------------------ C18
\* C18 (Spec): between handlers the canvas element is visible exactly when
\* 'done' is the last notified loading state; it is hidden before any
\* notification and whenever the last notified state is 'loading' or a
\* TextureError. The state the component remembers is the state it notified.
C18_VisibleIffDone ==
    /\ obj.canvas.display = "block" <=> obj.lastNotified = "done"
    /\ obj.lastNotified \in {NullState, "loading"} \cup TextureErrors =>
          obj.canvas.display \in {"", "none"}
    /\ obj.prevLoadingState = obj.lastNotified

\* A visible canvas with a deferred hide pending, whose firing hides it and
\* notifies 'loading'
C18_Witness ==
    /\ obj.canvas.display = "block"
    /\ \E t \in obj.timers :
          /\ TimerRun(t).canvas.display = "none"
          /\ TimerRun(t).lastNotified = "loading"

\* A hidden canvas showing the error of the current image, which an update
\* of the current state makes visible with 'done'
C18_WitnessError ==
    /\ phase = "mounted"
    /\ C16_ErrorState
    /\ obj.canvas.display = "none"
    /\ \E np \in AllProps :
          /\ UpdateRun(np).canvas.display = "block"
          /\ UpdateRun(np).lastNotified = "done"

\* ------------------------------------------------------------------ C19
\* C19 (Spec): 'done' only for the current image. Whenever an update draws a
\* frame or takes the loading state to 'done', the base texture bound to the
\* canvas is the cache's ready texture of the current props.imagePath and
\* canvasImagePath is that path; onTextureChange was notified with that
\* texture's size before: every update that binds a texture notifies its
\* size, and where the update that ends 'done' binds it, it notifies the
\* size before it notifies 'done'. No timer callback ends 'done'.
C19_Update(pre, p, pp, r) ==
    /\ (r.canvasImagePath # Null /\ r.canvasImagePath # pre.canvasImagePath) =>
          CalledWith(r, "onTextureChange", TextureSize(r.canvasImagePath))
    /\ (\/ Called(r, "update")
        \/ CalledWith(r, "onLoadingStateChange", "done")
        \/ (r.lastNotified = "done" /\ pre.lastNotified # "done")) =>
          /\ r.canvasImagePath = p.imagePath
          /\ r.canvas.baseTexture = p.imagePath
          /\ getTexture(r.textureCache, p.imagePath) = r.canvas.baseTexture
          /\ Before(r, "onTextureChange", "onLoadingStateChange")
          /\ \A i \in DOMAIN r.calls :
                r.calls[i].op = "onTextureChange" => r.calls[i].arg = TextureSize(p.imagePath)

C19_DoneOnlyForCurrent ==
    /\ ForAllUpdates(C19_Update)
    /\ \A t \in obj.timers : TimerRun(t).lastNotified # "done"
    /\ obj.canvasImagePath # Null => obj.canvas.baseTexture = obj.canvasImagePath

\* The last notified state is not 'done', another image than the current one
\* is bound or none, and an update binds the texture of the image the parent
\* navigates to, notifies its size and then 'done'
C19_Witness ==
    /\ phase = "mounted"
    /\ obj.lastNotified # "done"
    /\ \E np \in AllProps :
          /\ np.imagePath # props.imagePath
          /\ np.imagePath # obj.canvasImagePath
          /\ CalledWith(UpdateRun(np), "onTextureChange", TextureSize(np.imagePath))
          /\ CalledWith(UpdateRun(np), "onLoadingStateChange", "done")
          /\ UpdateRun(np).canvasImagePath = np.imagePath

\* ------------------------------------------------------------------ C20
\* C20 (SpecDetail): the 'keyup' listener PictureDetail registers in
\* componentDidMount is removed by componentWillUnmount: the document holds
\* one listener while the component is mounted and none otherwise, however
\* many instances were mounted before, and while no component is mounted no
\* key invokes setCurrent, setLeft or setRight.
C20_ListenerRemoved ==
    /\ Len(obj.listeners) = IF phase = "mounted" THEN 1 ELSE 0
    /\ phase = "mounted" => obj.listeners[1].this = obj.instance
    /\ phase # "mounted" => \A keyCode \in KeyCodes : KeyUpRun(keyCode).invoked = obj.invoked
====
